---- MODULE Spec2Model ----
(***************************************************************************)
(* Model of the delegation processing pipeline of the transaction sender   *)
(* (ops/delegate_user_decrypt.rs): DelegateUserDecryptOperation::execute   *)
(* and the functions it calls, together with the environment it talks to   *)
(* (the delegate_user_decrypt table filled by the host listener, the host  *)
(* chain, the gateway chain, the notification channel).                    *)
(*                                                                         *)
(* One pass of execute is a sequence of steps, one per await point of the  *)
(* code; pc is the position of the pass.  The table is `store`; the        *)
(* database transaction of a pass is `tx_deleted` (rows deleted inside the *)
(* transaction, applied to the table by commit, forgotten by rollback).    *)
(***************************************************************************)
EXTENDS Integers, Sequences, FiniteSets, TLC

\* ---------------------------------------------------------------- bounds
\* rows the table holds at any time
MaxRows == 2
\* width of the model's machine words: u64 is 0 .. 2^WordBits - 1 and
\* i64 is -2^(WordBits-1) .. 2^(WordBits-1) - 1
WordBits == 3

\* ------------------------------------------------------------ value sets
Modulus == 2 ^ WordBits

\* host chain heights that carry delegation events
Heights == {1, 2}

\* A block hash identifies one block, hence one height: hashes 1 and 2 are
\* two competing blocks at height 1, hash 3 is the block at height 2.
Hashes == {1, 2, 3}

HashHeight(hash) == IF hash <= 2 THEN 1 ELSE 2

Counters == {1, 2}

\* Option<Vec<u8>>: None is <<>>, Some(x) is <<x>>
TransactionIds == {<<>>, <<1>>, <<2>>}

\* heights the host chain (or a notification) can report
Heads == 0 .. 3

\* conf.block_delay_for_delegation
Delays == {1}

\* delays d for which height - d is an i64 whatever the height: none, the
\* delay of Init, the largest
SignedDelays == { 0, 1, Modulus \div 2 }

\* every value of the u64 conf.block_delay_for_delegation
AllDelays == 0 .. Modulus - 1

DelegationRow ==
    { r \in [block_number : Heights, block_hash : Hashes,
             delegation_counter : Counters, transaction_id : TransactionIds] :
        HashHeight(r.block_hash) = r.block_number }

\* The rows of the pipeline's runs all come from one host transaction: the
\* transaction id of a row is read by the ORDER BY of the fetch and by
\* nothing else in a pass.
ListenerRows == { r \in DelegationRow : r.transaction_id = <<1>> }

\* the canonical chains: one hash per height
Chains == { c \in [Heights -> Hashes] : \A h \in Heights : HashHeight(c[h]) = h }

RangeOf(s) == { s[i] : i \in DOMAIN s }

VARIABLES
    store,              \* table delegate_user_decrypt (committed rows)
    live,               \* canonical host chain: height -> block hash
    head,               \* current height of the host chain
    delay,              \* conf.block_delay_for_delegation
    pc,                 \* position of the current pass
    result,             \* what the last finished pass returned: "ok_true" for
                        \* Ok(true), "err_" and the place that failed for an
                        \* Err, "panic"; "none" while a pass runs
    notification,       \* how the wait for a notification ended in this pass
    block_number,       \* execute: height obtained by wait_last_block_number
    up_to_block_number, \* execute: the threshold
    delegations,        \* rows fetched by delayed_sorted_delegation, in order
    seen_hash,          \* get_block_hash results of this pass, by height
    blocks_status,      \* tx_check_ready_delegations: the per-pass cache
    oracle_calls,       \* heights get_block_hash was called for, in order
    ready_delegations,  \* Stable rows, in order
    handled_block_delegation, \* hashes handed to clean_delegation
    task,               \* join_set: state of each spawned task
    finished,           \* tasks that completed, in completion order
    clean_failed,       \* clean_delegation returned Err in this pass
    tx_deleted,         \* rows deleted inside the open transaction
    metric,             \* the counter each task incremented: "fail" for
                        \* DELEGATE_USER_DECRYPT_FAIL_COUNTER, "success" for
                        \* DELEGATE_USER_DECRYPT_SUCCESS_COUNTER, else "none"
    rejected,           \* history: the gateway contract rejected the task's
                        \* transaction as already delegated or revoked, or as
                        \* carrying too low a counter
    onchain,            \* history: rows of the table whose grant was mined
    kept                \* history: every row of the table is one that a failed
                        \* clean_delegation left behind

vars == << store, live, head, delay, pc, result, notification,
           block_number, up_to_block_number, delegations, seen_hash,
           blocks_status, oracle_calls, ready_delegations,
           handled_block_delegation, task, finished, clean_failed,
           tx_deleted, metric, rejected, onchain, kept >>

envVars == << store, live, head >>
confVars == << delay >>
heightVars == << notification, block_number, up_to_block_number >>
checkVars == << delegations, seen_hash, blocks_status, oracle_calls,
                ready_delegations, handled_block_delegation >>
joinVars == << task, finished, metric, rejected >>
metricVars == << onchain, kept >>

\* ------------------------------------------------------- machine integers
\* WrappingSub with the delay left out
WrappingSub_NoDelay(a, b) == a

\* u64 subtraction in a release build (wrapping)
WrappingSub(a, b) == (a - b + Modulus) % Modulus

\* `x as i64` of a u64
AsI64(x) == IF x >= Modulus \div 2 THEN x - Modulus ELSE x

\* ------------------------------------------------- notification payloads
\* A payload is a string; a character is a digit 0..9 or 10, any other
\* character.
NotDigit == 10

\* the decimal string of a height
RECURSIVE DecimalString(_)
DecimalString(n) ==
    IF n < 10 THEN << n >> ELSE Append(DecimalString(n \div 10), n % 10)

\* what a notification can carry: the height the listener saw, or a string
\* that is no height (empty, not a number, a number too large for a u64)
Payloads(h) ==
    { DecimalString(h), <<>>, << NotDigit >>, Append(DecimalString(h), NotDigit),
      DecimalString(Modulus) }

RECURSIVE DecimalValue(_)
DecimalValue(digits) ==
    IF digits = <<>> THEN 0
    ELSE 10 * DecimalValue(SubSeq(digits, 1, Len(digits) - 1)) + digits[Len(digits)]

\* notification.payload().parse::<u64>()
ParsePayload(payload) ==
    IF payload = <<>> \/ \E i \in DOMAIN payload : payload[i] = NotDigit
    THEN [ok |-> FALSE, val |-> 0]
    ELSE IF DecimalValue(payload) >= Modulus
         THEN [ok |-> FALSE, val |-> 0]
         ELSE [ok |-> TRUE, val |-> DecimalValue(payload)]

\* ------------------------------------------------------------- the store
\* transaction_id ASC: NULL sorts after every value
TransactionIdLess(a, b) ==
    \/ a # <<>> /\ b = <<>>
    \/ a # <<>> /\ b # <<>> /\ a[1] < b[1]

\* RowLess with the first two sort keys exchanged
RowLess_CounterFirst(a, b) ==
    \/ a.delegation_counter < b.delegation_counter
    \/ /\ a.delegation_counter = b.delegation_counter
       /\ a.block_number < b.block_number
    \/ /\ a.block_number = b.block_number
       /\ a.delegation_counter = b.delegation_counter
       /\ TransactionIdLess(a.transaction_id, b.transaction_id)

\* ORDER BY block_number ASC, delegation_counter ASC, transaction_id ASC
RowLess(a, b) ==
    \/ a.block_number < b.block_number
    \/ /\ a.block_number = b.block_number
       /\ a.delegation_counter < b.delegation_counter
    \/ /\ a.block_number = b.block_number
       /\ a.delegation_counter = b.delegation_counter
       /\ TransactionIdLess(a.transaction_id, b.transaction_id)

\* WHERE block_number <= $1, with $1 = up_to_block_number as i64
SelectedRows(table, up_to) ==
    { r \in table : r.block_number <= AsI64(up_to) }

\* delayed_sorted_delegation: every order the query may return the selected
\* rows in (rows equal on the three sort keys come in any order)
delayed_sorted_delegation(table, up_to) ==
    LET rows == SelectedRows(table, up_to)
        n == Cardinality(rows)
    IN { s \in [1 .. n -> rows] :
           /\ \A i, j \in 1 .. n : i # j => s[i] # s[j]
           /\ \A i, j \in 1 .. n : i < j => ~RowLess(s[j], s[i]) }

\* clean_delegation: the rows DELETE ... WHERE block_hash IN (...) removes
clean_delegation(table, blocks_hash) ==
    IF blocks_hash = <<>> THEN {}
    ELSE { r \in table : r.block_hash \in RangeOf(blocks_hash) }

\* ------------------------------------------------------------ host chain
\* what get_block_by_number can answer for a height
BlockAnswers(h) ==
    { [kind |-> "block", hash |-> live[h]],
      [kind |-> "none", hash |-> 0],
      [kind |-> "rpc_error", hash |-> 0] }

\* get_block_hash
get_block_hash(answer) ==
    IF answer.kind = "block"
    THEN [ok |-> TRUE, hash |-> answer.hash]
    ELSE [ok |-> FALSE, hash |-> 0]

\* ClassifyBlock with a failed lookup taken for a reorganisation
ClassifyBlock_ErrIsDismissed(looked, delegation) ==
    IF looked.ok /\ delegation.block_hash = looked.hash THEN "Stable"
    ELSE "Dismissed"

\* the match of tx_check_ready_delegations on the result of get_block_hash
ClassifyBlock(looked, delegation) ==
    IF looked.ok /\ delegation.block_hash = looked.hash THEN "Stable"
    ELSE IF looked.ok THEN "Dismissed"
    ELSE "Unkown"

\* CheckLoop with a failed lookup not entered in the cache
RECURSIVE CheckLoop_UnknownNotCached(_, _, _, _)
CheckLoop_UnknownNotCached(rows, i, answers, acc) ==
    IF i > Len(rows) THEN acc
    ELSE
      LET delegation == rows[i]
          bn == delegation.block_number
          cached == /\ bn \in DOMAIN acc.blocks_status
                    /\ acc.blocks_status[bn] # "Unkown"
          looked == get_block_hash(answers[bn])
          block_status == IF cached THEN acc.blocks_status[bn]
                          ELSE ClassifyBlock(looked, delegation)
          acc1 == IF cached THEN acc
                  ELSE [acc EXCEPT
                          !.blocks_status = bn :> block_status @@ @,
                          !.seen_hash = bn :> looked @@ @,
                          !.oracle_calls = Append(@, bn)]
          acc2 == CASE block_status = "Stable" ->
                         [acc1 EXCEPT
                            !.handled = Append(@, delegation.block_hash),
                            !.stable = Append(@, delegation)]
                    [] block_status = "Dismissed" ->
                         [acc1 EXCEPT
                            !.handled = Append(@, delegation.block_hash)]
                    [] OTHER -> acc1
      IN CheckLoop_UnknownNotCached(rows, i + 1, answers, acc2)

\* the for loop of tx_check_ready_delegations, from row i on
RECURSIVE CheckLoop(_, _, _, _)
CheckLoop(rows, i, answers, acc) ==
    IF i > Len(rows) THEN acc
    ELSE
      LET delegation == rows[i]
          bn == delegation.block_number
          cached == bn \in DOMAIN acc.blocks_status
          looked == get_block_hash(answers[bn])
          block_status == IF cached THEN acc.blocks_status[bn]
                          ELSE ClassifyBlock(looked, delegation)
          acc1 == IF cached THEN acc
                  ELSE [acc EXCEPT
                          !.blocks_status = bn :> block_status @@ @,
                          !.seen_hash = bn :> looked @@ @,
                          !.oracle_calls = Append(@, bn)]
          acc2 == CASE block_status = "Stable" ->
                         [acc1 EXCEPT
                            !.handled = Append(@, delegation.block_hash),
                            !.stable = Append(@, delegation)]
                    [] block_status = "Dismissed" ->
                         [acc1 EXCEPT
                            !.handled = Append(@, delegation.block_hash)]
                    [] OTHER -> acc1
      IN CheckLoop(rows, i + 1, answers, acc2)

EmptyMap == [x \in {} |-> 0]

\* tx_check_ready_delegations on the fetched rows
tx_check_ready_delegations(rows, answers) ==
    CheckLoop(rows, 1, answers,
              [blocks_status |-> EmptyMap, seen_hash |-> EmptyMap,
               oracle_calls |-> <<>>, stable |-> <<>>, handled |-> <<>>])

\* --------------------------------------------------------- gateway chain
\* what gateway_provider.send_transaction can answer
SendAnswers ==
    { [rpc |-> "Ok", detail |-> "sent"],
      [rpc |-> "ErrorResp", detail |-> "CoprocessorAlreadyDelegatedOrRevokedUserDecryption"],
      [rpc |-> "ErrorResp", detail |-> "UserDecryptionDelegationCounterTooLow"],
      [rpc |-> "ErrorResp", detail |-> "OtherMultichainACLError"],
      [rpc |-> "ErrorResp", detail |-> "Undecodable"],
      [rpc |-> "Transport", detail |-> "Retryable"],
      [rpc |-> "Transport", detail |-> "BackendGone"],
      [rpc |-> "Transport", detail |-> "Other"],
      [rpc |-> "LocalUsageError", detail |-> ""],
      [rpc |-> "Other", detail |-> ""] }

\* what get_receipt can answer for a sent transaction
ReceiptAnswers == { "status_true", "status_false", "timeout", "transport_error" }

\* the two contract errors that say the delegation is already in place
ContractRejection(sent) ==
    sent = [rpc |-> "ErrorResp", detail |-> "CoprocessorAlreadyDelegatedOrRevokedUserDecryption"]
    \/ sent = [rpc |-> "ErrorResp", detail |-> "UserDecryptionDelegationCounterTooLow"]

\* a receipt is awaited only for a transaction that was sent
ReceiptsFor(sent) == IF sent.rpc = "Ok" THEN ReceiptAnswers ELSE { "not_awaited" }

\* non_applicable_delegation without its second match arm
non_applicable_delegation_OneArm(e) ==
    /\ e.rpc = "ErrorResp"
    /\ e.detail = "CoprocessorAlreadyDelegatedOrRevokedUserDecryption"

\* non_applicable_delegation(e).is_some()
non_applicable_delegation(e) ==
    /\ e.rpc = "ErrorResp"
    /\ e.detail \in { "CoprocessorAlreadyDelegatedOrRevokedUserDecryption",
                      "UserDecryptionDelegationCounterTooLow" }

\* send_transaction without the test of receipt.status()
send_transaction_IgnoreStatus(sent, receipt) ==
    IF sent.rpc # "Ok"
    THEN IF non_applicable_delegation(sent)
         THEN [ok |-> TRUE, metric |-> "none", mined |-> FALSE]
         ELSE [ok |-> FALSE, metric |-> "fail", mined |-> FALSE]
    ELSE IF receipt \in { "timeout", "transport_error" }
         THEN [ok |-> FALSE, metric |-> "fail", mined |-> FALSE]
         ELSE [ok |-> TRUE, metric |-> "success", mined |-> receipt = "status_true"]

\* send_transaction: the Result it returns and the counter it increments;
\* mined says that the grant was applied on the gateway chain
send_transaction(sent, receipt) ==
    IF sent.rpc # "Ok"
    THEN IF non_applicable_delegation(sent)
         THEN [ok |-> TRUE, metric |-> "none", mined |-> FALSE]
         ELSE [ok |-> FALSE, metric |-> "fail", mined |-> FALSE]
    ELSE IF receipt \in { "timeout", "transport_error" }
         THEN [ok |-> FALSE, metric |-> "fail", mined |-> FALSE]
         ELSE IF receipt = "status_true"
              THEN [ok |-> TRUE, metric |-> "success", mined |-> TRUE]
              ELSE [ok |-> FALSE, metric |-> "fail", mined |-> FALSE]

\* ------------------------------------------------------------------ Init
PassLocalsInit ==
    /\ notification = "none"
    /\ block_number = 0
    /\ up_to_block_number = 0
    /\ delegations = <<>>
    /\ seen_hash = <<>>
    /\ blocks_status = <<>>
    /\ oracle_calls = <<>>
    /\ ready_delegations = <<>>
    /\ handled_block_delegation = <<>>
    /\ task = <<>>
    /\ metric = <<>>
    /\ rejected = <<>>
    /\ finished = <<>>
    /\ clean_failed = FALSE
    /\ tx_deleted = {}

\* the locals of execute at its entry
PassLocalsReset ==
    /\ notification' = "none"
    /\ block_number' = 0
    /\ up_to_block_number' = 0
    /\ delegations' = <<>>
    /\ seen_hash' = <<>>
    /\ blocks_status' = <<>>
    /\ oracle_calls' = <<>>
    /\ ready_delegations' = <<>>
    /\ handled_block_delegation' = <<>>
    /\ task' = <<>>
    /\ metric' = <<>>
    /\ rejected' = <<>>
    /\ finished' = <<>>
    /\ clean_failed' = FALSE
    /\ tx_deleted' = {}

\* DelegateUserDecryptOperation::new: nothing has run; the table holds what
\* the host listener has inserted so far
Init ==
    /\ store \in { t \in SUBSET ListenerRows : Cardinality(t) <= MaxRows }
    /\ live \in Chains
    /\ head \in Heads
    /\ delay \in Delays
    /\ pc = "idle"
    /\ result = "none"
    /\ PassLocalsInit
    /\ onchain = {}
    /\ kept = FALSE

\* ----------------------------------------------------------- environment
\* The pass reads the table in its fetch and in its delete and writes it in
\* its commit; it reads the host chain's blocks in its fetch and the chain's
\* height (or a notification of it) in its wait.  What the environment does
\* between two of these points, or between two is seen at the later
\* point, so the environment's steps are interleaved right before them.
TablePoints == { "fetch", "cleanup", "commit" }
ChainPoints == { "fetch" }
HeadPoints == { "connect" }

\* the host listener inserts a row (also during a pass)
Insert(row) ==
    /\ pc \in TablePoints
    /\ Cardinality(store) < MaxRows
    /\ row \notin store
    /\ store' = store \cup {row}
    /\ kept' = FALSE
    /\ UNCHANGED << live, head, pc, result, confVars, heightVars,
                    checkVars, joinVars, clean_failed, tx_deleted, onchain >>

\* the host chain replaces the block at a height
Reorg(h, hash) ==
    /\ pc \in ChainPoints
    /\ HashHeight(hash) = h
    /\ hash # live[h]
    /\ live' = [live EXCEPT ![h] = hash]
    /\ UNCHANGED << store, head, pc, result, confVars,
                    heightVars, checkVars, joinVars, clean_failed, tx_deleted,
                    metricVars >>

\* the host chain grows (or is cut back by a reorganisation)
NewHead(h) ==
    /\ pc \in HeadPoints
    /\ h # head
    /\ head' = h
    /\ UNCHANGED << store, live, pc, result, confVars,
                    heightVars, checkVars, joinVars, clean_failed, tx_deleted,
                    metricVars >>

\* ---------------------------------------------------------------- a pass
\* execute returns r; a transaction still open is dropped, which rolls it
\* back, and the join set is dropped, which aborts the tasks still running
Return(r) ==
    /\ pc' = "idle"
    /\ result' = r
    /\ task' = [i \in DOMAIN task |->
                  IF task[i] = "running" THEN "aborted" ELSE task[i]]

\* the scheduling loop calls execute
Start ==
    /\ pc = "idle"
    /\ pc' = "connect"
    /\ result' = "none"
    /\ PassLocalsReset
    /\ onchain' = onchain \cap store
    /\ kept' = (kept /\ store # {})
    /\ UNCHANGED << store, live, head, confVars >>

\* wait_last_block_number: PgListener::connect_with(..).await?
Connect(ok) ==
    /\ pc = "connect"
    /\ IF ok THEN /\ pc' = "listen"
                  /\ UNCHANGED << result, task >>
             ELSE Return("err_connect")
    /\ UNCHANGED << envVars, confVars, heightVars, checkVars, finished, metric, rejected,
                    clean_failed, tx_deleted, metricVars >>

\* wait_last_block_number: listener.listen(channel).await?
Listen(ok) ==
    /\ pc = "listen"
    /\ IF ok THEN /\ pc' = "recv"
                  /\ UNCHANGED << result, task >>
             ELSE Return("err_listen")
    /\ UNCHANGED << envVars, confVars, heightVars, checkVars, finished, metric, rejected,
                    clean_failed, tx_deleted, metricVars >>

\* RecvTimeout with the timeout propagated as an error
RecvTimeout_Bail ==
    /\ pc = "recv"
    /\ notification' = "timeout"
    /\ Return("err_listen")
    /\ UNCHANGED << envVars, confVars, block_number, up_to_block_number,
                    checkVars, finished, metric, rejected, clean_failed,
                    tx_deleted, metricVars >>

\* wait_last_block_number: the timeout elapses before listener.recv() answers
RecvTimeout ==
    /\ pc = "recv"
    /\ notification' = "timeout"
    /\ pc' = "query"
    /\ UNCHANGED << envVars, confVars, result, block_number,
                    up_to_block_number, checkVars, joinVars, clean_failed,
                    tx_deleted, metricVars >>

\* wait_last_block_number: listener.recv() returns an error
RecvError ==
    /\ pc = "recv"
    /\ notification' = "error"
    /\ pc' = "query"
    /\ UNCHANGED << envVars, confVars, result, block_number,
                    up_to_block_number, checkVars, joinVars, clean_failed,
                    tx_deleted, metricVars >>

\* wait_last_block_number: listener.recv() returns a notification
RecvNotification(payload) ==
    /\ pc = "recv"
    /\ LET parsed == ParsePayload(payload)
       IN IF parsed.ok
          THEN /\ notification' = "height"
               /\ block_number' = parsed.val
               /\ pc' = "begin"
          ELSE /\ notification' = "invalid"
               /\ UNCHANGED block_number
               /\ pc' = "query"
    /\ UNCHANGED << envVars, confVars, result, up_to_block_number,
                    checkVars, joinVars, clean_failed, tx_deleted, metricVars >>

\* from_chost_chain: host_chain_provider.get_block_number().await?
QueryHeight(ok) ==
    /\ pc = "query"
    /\ IF ok THEN /\ block_number' = head
                  /\ pc' = "begin"
                  /\ UNCHANGED << result, task >>
             ELSE /\ UNCHANGED block_number
                  /\ Return("err_height")
    /\ UNCHANGED << envVars, confVars, notification,
                    up_to_block_number, checkVars, finished, metric, rejected, clean_failed,
                    tx_deleted, metricVars >>

\* execute: block_number - conf.block_delay_for_delegation, db_pool.begin().
\* The u64 subtraction of a larger delay panics in a build with overflow
\* checks and wraps in a build without.  The locals of
\* wait_last_block_number are gone.
Begin(checked, ok) ==
    /\ pc = "begin"
    /\ IF block_number < delay /\ checked
       THEN /\ Return("panic")
            /\ UNCHANGED up_to_block_number
       ELSE /\ up_to_block_number' = WrappingSub(block_number, delay)
            /\ IF ok THEN /\ pc' = "fetch"
                          /\ UNCHANGED << result, task >>
                     ELSE Return("err_begin")
    /\ notification' = "none"
    /\ UNCHANGED << envVars, confVars, block_number, checkVars,
                    finished, metric, rejected, clean_failed, tx_deleted, metricVars >>

HostAnswers ==
    { a \in [Heights -> UNION { BlockAnswers(h) : h \in Heights }] :
        \A h \in Heights : a[h] \in BlockAnswers(h) }

\* execute: tx_check_ready_delegations fails on the query of
\* delayed_sorted_delegation; rollback and bail
FetchError ==
    /\ pc = "fetch"
    /\ Return("err_check")
    /\ UNCHANGED << envVars, confVars, heightVars, checkVars, finished, metric, rejected,
                    clean_failed, tx_deleted, metricVars >>

\* Fetch without the early commit of a pass that has nothing to handle
Fetch_NoEarlyCommit(rows, answers) ==
    /\ pc = "fetch"
    /\ rows \in delayed_sorted_delegation(store, up_to_block_number)
    /\ LET checked == tx_check_ready_delegations(rows, answers)
       IN /\ delegations' = rows
          /\ seen_hash' = checked.seen_hash
          /\ blocks_status' = checked.blocks_status
          /\ oracle_calls' = checked.oracle_calls
          /\ ready_delegations' = checked.stable
          /\ handled_block_delegation' = checked.handled
          /\ task' = [i \in DOMAIN checked.stable |-> "running"]
          /\ metric' = [i \in DOMAIN checked.stable |-> "none"]
          /\ rejected' = [i \in DOMAIN checked.stable |-> FALSE]
          /\ pc' = "join"
    /\ UNCHANGED << envVars, confVars, result, heightVars, finished,
                    clean_failed, tx_deleted, metricVars >>

\* execute: tx_check_ready_delegations on the rows the query returns and the
\* answers of the host chain, then either the commit of an empty pass or the
\* spawn of one task per ready delegation
Fetch(rows, answers) ==
    /\ pc = "fetch"
    /\ rows \in delayed_sorted_delegation(store, up_to_block_number)
    /\ LET checked == tx_check_ready_delegations(rows, answers)
       IN /\ delegations' = rows
          /\ seen_hash' = checked.seen_hash
          /\ blocks_status' = checked.blocks_status
          /\ oracle_calls' = checked.oracle_calls
          /\ ready_delegations' = checked.stable
          /\ handled_block_delegation' = checked.handled
          /\ task' = [i \in DOMAIN checked.stable |-> "running"]
          /\ metric' = [i \in DOMAIN checked.stable |-> "none"]
          /\ rejected' = [i \in DOMAIN checked.stable |-> FALSE]
          /\ pc' = IF checked.stable = <<>> /\ checked.handled = <<>>
                   THEN "commit" ELSE "join"
    /\ UNCHANGED << envVars, confVars, result, heightVars, finished,
                    clean_failed, tx_deleted, metricVars >>

\* a spawned task: send_transaction runs to its end
TaskFinish(i, sent, receipt) ==
    /\ pc = "join"
    /\ i \in DOMAIN task
    /\ task[i] = "running"
    /\ LET r == send_transaction(sent, receipt)
       IN /\ task' = [task EXCEPT ![i] = IF r.ok THEN "ok" ELSE "err"]
          /\ metric' = [metric EXCEPT ![i] = r.metric]
          /\ rejected' = [rejected EXCEPT ![i] = ContractRejection(sent)]
          /\ onchain' = IF r.mined THEN onchain \cup {ready_delegations[i]}
                        ELSE onchain
    /\ finished' = Append(finished, i)
    /\ kept' = kept
    /\ UNCHANGED << envVars, confVars, pc, result, heightVars,
                    checkVars, clean_failed, tx_deleted >>

\* JoinNext with the result of the joined task ignored
JoinNext_IgnoreResult ==
    /\ pc = "join"
    /\ finished # <<>>
    /\ finished' = Tail(finished)
    /\ task' = [task EXCEPT ![Head(finished)] = "joined"]
    /\ UNCHANGED << pc, result, envVars, confVars, heightVars, checkVars,
                    metric, rejected, clean_failed, tx_deleted, metricVars >>

\* execute: join_set.join_next() yields the next completed task; the first
\* result that is not Ok(Ok(())) rolls back and bails
JoinNext ==
    /\ pc = "join"
    /\ finished # <<>>
    /\ finished' = Tail(finished)
    /\ IF task[Head(finished)] = "ok"
       THEN /\ task' = [task EXCEPT ![Head(finished)] = "joined"]
            /\ UNCHANGED << pc, result >>
       ELSE Return("err_send")
    /\ UNCHANGED << envVars, confVars, heightVars, checkVars, metric, rejected,
                    clean_failed, tx_deleted, metricVars >>

\* execute: join_set.join_next() yields None, every task was joined
JoinDone ==
    /\ pc = "join"
    /\ \A i \in DOMAIN task : task[i] = "joined"
    /\ pc' = "cleanup"
    /\ UNCHANGED << envVars, confVars, result, heightVars, checkVars,
                    joinVars, clean_failed, tx_deleted, metricVars >>

\* Cleanup with the error of clean_delegation propagated
Cleanup_Propagate(ok) ==
    /\ pc = "cleanup"
    /\ IF ok THEN /\ tx_deleted' = clean_delegation(store, handled_block_delegation)
                  /\ pc' = "commit"
                  /\ UNCHANGED << clean_failed, result, task >>
             ELSE /\ clean_failed' = TRUE
                  /\ Return("err_clean")
                  /\ UNCHANGED tx_deleted
    /\ UNCHANGED << envVars, confVars, heightVars, checkVars, finished,
                    metric, rejected, metricVars >>

\* execute: clean_delegation(&mut tx, &handled_block_delegation); an error
\* is logged and the pass goes on to commit
Cleanup(ok) ==
    /\ pc = "cleanup"
    /\ IF ok THEN /\ tx_deleted' = clean_delegation(store, handled_block_delegation)
                  /\ UNCHANGED clean_failed
             ELSE /\ clean_failed' = TRUE
                  /\ UNCHANGED tx_deleted
    /\ pc' = "commit"
    /\ UNCHANGED << envVars, confVars, result, heightVars, checkVars,
                    joinVars, metricVars >>

\* Commit with a pass that found nothing to handle returning Ok(false)
Commit_FalseWhenEmpty(ok) ==
    /\ pc = "commit"
    /\ IF ok THEN /\ store' = store \ tx_deleted
                  /\ kept' = IF clean_failed
                             THEN store # {} /\ store = clean_delegation(store, handled_block_delegation)
                             ELSE kept
                  /\ IF ready_delegations = <<>> /\ handled_block_delegation = <<>>
                     THEN Return("ok_false")
                     ELSE Return("ok_true")
             ELSE /\ UNCHANGED << store, kept >>
                  /\ Return("err_commit")
    /\ UNCHANGED << live, head, confVars, heightVars, checkVars,
                    finished, metric, rejected, clean_failed, tx_deleted, onchain >>

\* execute: tx.commit().await?
Commit(ok) ==
    /\ pc = "commit"
    /\ IF ok THEN /\ store' = store \ tx_deleted
                  /\ kept' = IF clean_failed
                             THEN store # {} /\ store = clean_delegation(store, handled_block_delegation)
                             ELSE kept
                  /\ Return("ok_true")
             ELSE /\ UNCHANGED << store, kept >>
                  /\ Return("err_commit")
    /\ UNCHANGED << live, head, confVars, heightVars, checkVars,
                    finished, metric, rejected, clean_failed, tx_deleted, onchain >>

Next ==
    \/ \E row \in ListenerRows : Insert(row)
    \/ \E h \in Heights, hash \in Hashes : Reorg(h, hash)
    \/ \E h \in Heads : NewHead(h)
    \/ Start
    \/ \E ok \in BOOLEAN : Connect(ok)
    \/ \E ok \in BOOLEAN : Listen(ok)
    \/ RecvTimeout
    \/ RecvError
    \/ \E payload \in Payloads(head) : RecvNotification(payload)
    \/ \E ok \in BOOLEAN : QueryHeight(ok)
    \/ \E checked \in BOOLEAN, ok \in BOOLEAN : Begin(checked, ok)
    \/ FetchError
    \/ \E rows \in delayed_sorted_delegation(store, up_to_block_number),
          answers \in HostAnswers : Fetch(rows, answers)
    \/ \E i \in DOMAIN task, sent \in SendAnswers :
          \E receipt \in ReceiptsFor(sent) : TaskFinish(i, sent, receipt)
    \/ JoinNext
    \/ JoinDone
    \/ \E ok \in BOOLEAN : Cleanup(ok)
    \/ \E ok \in BOOLEAN : Commit(ok)

Spec == Init /\ [][Next]_vars

\* The timer of the notification wait fires, and the calls that answer the
\* height query and open the transaction return.
QueryStep == \E ok \in BOOLEAN : QueryHeight(ok)

BeginStep == \E checked \in BOOLEAN, ok \in BOOLEAN : Begin(checked, ok)

LiveSpec ==
    /\ Spec
    /\ WF_vars(RecvTimeout)
    /\ WF_vars(QueryStep)
    /\ WF_vars(BeginStep)

\* A step of the pass: every await of execute returns (with a value or an
\* error) and the scheduling loop calls execute again after it returned.
PassStep ==
    \/ Start
    \/ \E ok \in BOOLEAN : Connect(ok)
    \/ \E ok \in BOOLEAN : Listen(ok)
    \/ RecvTimeout
    \/ RecvError
    \/ \E payload \in Payloads(head) : RecvNotification(payload)
    \/ QueryStep
    \/ BeginStep
    \/ FetchError
    \/ \E rows \in delayed_sorted_delegation(store, up_to_block_number),
          answers \in HostAnswers : Fetch(rows, answers)
    \/ \E i \in DOMAIN task, sent \in SendAnswers :
          \E receipt \in ReceiptsFor(sent) : TaskFinish(i, sent, receipt)
    \/ JoinNext
    \/ JoinDone
    \/ \E ok \in BOOLEAN : Cleanup(ok)
    \/ \E ok \in BOOLEAN : Commit(ok)

FairSpec == Spec /\ WF_vars(PassStep)

\* One pass from the height it obtained to its return, on any table the
\* host listener can have written (rows of several host transactions, rows
\* without a transaction id) and with any delay whose difference to a
\* height is an i64.
PassInit ==
    /\ store \in { t \in SUBSET DelegationRow : Cardinality(t) <= MaxRows }
    /\ live \in Chains
    /\ head \in Heads
    /\ delay \in SignedDelays
    /\ pc = "begin"
    /\ result = "none"
    /\ PassLocalsInit
    /\ onchain = {}
    /\ kept = FALSE

\* as PassInit, on the listener's rows of Init, with any u64 as the delay
WideInit ==
    /\ store \in { t \in SUBSET ListenerRows : Cardinality(t) <= MaxRows }
    /\ live \in Chains
    /\ head \in Heads
    /\ delay \in AllDelays
    /\ pc = "begin"
    /\ result = "none"
    /\ PassLocalsInit
    /\ onchain = {}
    /\ kept = FALSE

\* wait_last_block_number has returned the height of the host chain
HeightObtained ==
    /\ pc = "begin"
    /\ block_number = 0
    /\ head # 0
    /\ block_number' = head
    /\ UNCHANGED << envVars, confVars, pc, result, notification,
                    up_to_block_number, checkVars, joinVars, clean_failed,
                    tx_deleted, metricVars >>

PassNext ==
    \/ HeightObtained
    \/ BeginStep
    \/ FetchError
    \/ \E rows \in delayed_sorted_delegation(store, up_to_block_number),
          answers \in HostAnswers : Fetch(rows, answers)
    \/ \E i \in DOMAIN task, sent \in SendAnswers :
          \E receipt \in ReceiptsFor(sent) : TaskFinish(i, sent, receipt)
    \/ JoinNext
    \/ JoinDone
    \/ \E ok \in BOOLEAN : Cleanup(ok)
    \/ \E ok \in BOOLEAN : Commit(ok)

\* the pass up to its check of the ready delegations
FetchNext ==
    \/ HeightObtained
    \/ BeginStep
    \/ FetchError
    \/ \E rows \in delayed_sorted_delegation(store, up_to_block_number),
          answers \in HostAnswers : Fetch(rows, answers)

PassSpec == PassInit /\ [][FetchNext]_vars

WideSpec == WideInit /\ [][PassNext]_vars

\* ---------------------------------------------------------------- claims
\* the last pass returned Ok(true)
Committed == pc = "idle" /\ result = "ok_true"

\* the block lookup at the row's height answered in this pass
Looked(r) ==
    /\ r.block_number \in DOMAIN seen_hash
    /\ seen_hash[r.block_number].ok

\* the lookup at the row's height failed in this pass
LookupFailed(r) ==
    /\ r.block_number \in DOMAIN seen_hash
    /\ ~seen_hash[r.block_number].ok

\* the live hash the lookup returned at the row's height
LiveHash(r) == seen_hash[r.block_number].hash

\* the row was handed to a submission task in this pass
Submitted(r) == r \in RangeOf(ready_delegations)

\* task i ended with a non-benign error
Failed(i) == task[i] = "err" \/ metric[i] = "fail"

\* C1: every row a pass has deleted was, in that pass, either submitted
\* with success (or a benign rejection) while its recorded hash was the live
\* hash at its height, or a row whose recorded hash differed from the live
\* hash at its height.
C1_DeletionsJustified ==
    Committed =>
        \A r \in tx_deleted :
            /\ Looked(r)
            /\ \/ Submitted(r) /\ r.block_hash = LiveHash(r)
               \/ r.block_hash # LiveHash(r)

\* C2: once a task of a pass has ended with a non-benign error, no step of
\* that pass deletes a row: the pass never reaches its cleanup or its commit
\* and returns the error of the join; and the table only ever changes by an
\* insert of the listener or by the commit of a pass whose tasks all
\* succeeded.
C2_FailedStep ==
    (\E i \in DOMAIN task' : Failed(i)') =>
        /\ store \subseteq store'
        /\ tx_deleted' = {}
        /\ pc' \notin { "cleanup", "commit" }
        /\ result' \in { "none", "err_send" }

C2_TableStep ==
    store' # store =>
        \/ store \subseteq store'
        \/ /\ pc = "commit"
           /\ result' = "ok_true"
           /\ \A i \in DOMAIN task : task[i] = "joined" /\ ~Failed(i)

C2_Atomicity == [][C2_FailedStep /\ C2_TableStep]_vars

\* C2 witness: a pass rolled back on a failed task while another task's
\* grant was mined, and every submitted row is still in the table
C2_Witness ==
    /\ pc = "idle"
    /\ result = "err_send"
    /\ \E i, j \in DOMAIN task :
          i # j /\ task[i] = "err" /\ metric[j] = "success"
    /\ RangeOf(ready_delegations) \subseteq store

\* C3: every fetched row whose recorded hash equals the live hash returned
\* by the lookup at its height is classified Stable and becomes a submission
\* candidate, whatever other rows are in the batch.
C3_LiveHashIsStable ==
    \A i \in DOMAIN delegations :
        (Looked(delegations[i]) /\ delegations[i].block_hash = LiveHash(delegations[i]))
            => Submitted(delegations[i])

\* C4: every fetched row whose recorded hash differs from the live hash at
\* its height is classified Dismissed: it is not submitted in that pass and
\* its hash is in the deletion set, whatever other rows share its height.
C4_StaleHashIsDismissed ==
    \A i \in DOMAIN delegations :
        (Looked(delegations[i]) /\ delegations[i].block_hash # LiveHash(delegations[i]))
            => /\ ~Submitted(delegations[i])
               /\ delegations[i].block_hash \in RangeOf(handled_block_delegation)

\* C5: every fetched row whose block lookup failed is classified Unknown:
\* it is not submitted, its hash is not in the deletion set, the check of
\* the ready delegations did not fail, and the row is in the table during
\* and after the pass, whether the pass commits or rolls back.
C5_UnknownIsKept ==
    \A i \in DOMAIN delegations :
        LookupFailed(delegations[i]) =>
            /\ blocks_status[delegations[i].block_number] = "Unkown"
            /\ ~Submitted(delegations[i])
            /\ delegations[i].block_hash \notin RangeOf(handled_block_delegation)
            /\ delegations[i] \notin tx_deleted
            /\ delegations[i] \in store
            /\ result # "err_check"

\* C5 witness: a pass committed the deletion of a row while another fetched
\* row, whose lookup failed, stayed in the table
C5_Witness ==
    /\ Committed
    /\ tx_deleted # {}
    /\ \E i \in DOMAIN delegations : LookupFailed(delegations[i])

\* C6: a task whose transaction the contract rejected as already delegated
\* or revoked, or as counter too low, returns Ok and increments no failure
\* counter; a pass rolls back at the join only on a task that failed
\* otherwise; and a pass that commits after a working cleanup has deleted
\* the row of the rejected task.
C6_BenignRejection ==
    /\ \A i \in DOMAIN task :
          rejected[i] =>
             /\ task[i] \in { "ok", "joined" }
             /\ metric[i] = "none"
             /\ (Committed /\ ~clean_failed) =>
                   /\ ready_delegations[i] \in tx_deleted
                   /\ ready_delegations[i] \notin store
    /\ result = "err_send" =>
          \E j \in DOMAIN task : task[j] = "err" /\ ~rejected[j]

\* C6 witness: a row whose grant an earlier pass had mined without deleting
\* the row is resubmitted, rejected by the contract, and deleted by a pass
\* that commits
C6_Witness ==
    /\ Committed
    /\ \E i \in DOMAIN task :
          /\ rejected[i]
          /\ ready_delegations[i] \in onchain
          /\ ready_delegations[i] \notin store

\* C7: when a pass has decided (commit or rollback) every task it
\* dispatched has reached its own final outcome: none is still running and
\* none was cancelled.
C7_FanInBarrier ==
    (pc = "idle" /\ result # "none") =>
        \A i \in DOMAIN task : task[i] \notin { "running", "aborted" }

\* C8: when the notification wait times out the pass goes on to the direct
\* height query (it does not fail), the height a query gives the pass is the
\* host chain's, the wait for a notification always ends, and after a
\* timeout the pass reaches its fetch with the queried height unless the
\* query, the subtraction or the opening of the transaction fails.
C8_TimeoutStep ==
    (pc = "recv" /\ notification' = "timeout") =>
        (pc' = "query" /\ result' = "none")

C8_QueryStep ==
    (pc = "query" /\ pc' = "begin") => block_number' = head

C8_HeightWait ==
    /\ [][C8_TimeoutStep /\ C8_QueryStep]_vars
    /\ (pc = "recv") ~> (pc # "recv")
    /\ (pc = "query" /\ notification = "timeout") ~>
          \/ pc = "fetch" /\ block_number = head
                          /\ up_to_block_number = WrappingSub(head, delay)
          \/ pc = "idle" /\ result \in { "err_height", "err_begin", "panic" }

\* C8 witness: the wait timed out and the pass holds the height the host
\* chain returned
C8_Witness ==
    /\ pc = "begin"
    /\ notification = "timeout"
    /\ block_number = head

\* C9: no fault of the notification channel fails the pass: an error on
\* connecting, on subscribing or on receiving, and a payload that is no
\* height, each lead to the direct height query.
C9_ChannelFaultsFallBack ==
    /\ result \notin { "err_connect", "err_listen" }
    /\ notification \in { "error", "invalid" } => pc \in { "query", "begin" }

\* C10: a failed cleanup does not roll the pass back and does not make it
\* return: the pass goes on to its commit with nothing deleted, it returns
\* Ok(true) unless the commit itself fails, and the rows it meant to delete
\* are still in the table.
C10_CleanupStep ==
    (pc = "cleanup" /\ clean_failed') =>
        /\ pc' = "commit"
        /\ result' = "none"
        /\ store' = store
        /\ tx_deleted' = {}

C10_CommitStep ==
    (pc = "commit" /\ clean_failed /\ pc' = "idle") =>
        /\ result' \in { "ok_true", "err_commit" }
        /\ store' = store
        /\ \A i \in DOMAIN delegations' :
              delegations'[i].block_hash \in RangeOf(handled_block_delegation')
                 => delegations'[i] \in store'

C10_CleanupFailure == [][C10_CleanupStep /\ C10_CommitStep]_vars

\* C10 witness: every row of the table was left behind by a pass whose
\* cleanup failed, and a later pass with a working cleanup has deleted rows
\* and returned Ok(true)
C10_Witness ==
    /\ Committed
    /\ ~clean_failed
    /\ kept
    /\ tx_deleted # {}

\* the pass has fetched row r and the lookup at its height returned r's hash
C11_FetchedLive(r) ==
    /\ pc = "join"
    /\ r \in RangeOf(delegations)
    /\ Looked(r)
    /\ r.block_hash = LiveHash(r)

\* the pass submitted row r and committed its deletion
C11_Delivered(r) ==
    /\ Committed
    /\ r \in RangeOf(ready_delegations)
    /\ r \in tx_deleted
    /\ r \notin store

\* an operation of the pass failed
C11_PassFailed ==
    /\ pc = "idle"
    /\ result \notin { "none", "ok_true" } \/ clean_failed

\* C11: a pass that has fetched a row (block_number at most height minus
\* delay) whose recorded hash is the live hash at its height ends, unless one
\* of its operations fails, with the row submitted to the gateway chain and
\* then deleted from the table; with operations that succeed from some
\* point on, every such row is eventually delivered.
C11_EventualDelivery ==
    \A r \in ListenerRows :
        C11_FetchedLive(r) ~> (C11_Delivered(r) \/ C11_PassFailed)

\* the pass has run its fetch and its check of the ready delegations
Checked == pc \in { "join", "commit" }

\* a comes no later than b in the order (block_number, delegation_counter,
\* transaction id), a row without transaction id after its peers with one
C12_InOrder(a, b) ==
    \/ a.block_number < b.block_number
    \/ /\ a.block_number = b.block_number
       /\ a.delegation_counter < b.delegation_counter
    \/ /\ a.block_number = b.block_number
       /\ a.delegation_counter = b.delegation_counter
       /\ \/ b.transaction_id = <<>>
          \/ /\ a.transaction_id # <<>>
             /\ a.transaction_id[1] <= b.transaction_id[1]

C12_IsReady(r) == r \in RangeOf(ready_delegations)

\* C12: the fetch returns exactly the rows of the table with block_number
\* at most height minus delay, each once, in ascending order of
\* (block_number, delegation_counter, transaction id), and the list of ready
\* delegations is the fetched list with the rows that are not ready left
\* out, in the same order.
C12_OrderStability ==
    Checked =>
        /\ RangeOf(delegations) =
              { r \in store : r.block_number <= block_number - delay }
        /\ Len(delegations) = Cardinality(RangeOf(delegations))
        /\ \A i, j \in DOMAIN delegations :
              i < j => C12_InOrder(delegations[i], delegations[j])
        /\ ready_delegations = SelectSeq(delegations, C12_IsReady)

\* C12 witness: two rows that tie on block_number and delegation_counter are
\* both ready, in the order of their transaction ids
C12_Witness ==
    /\ pc = "join"
    /\ Len(ready_delegations) = 2
    /\ ready_delegations[1].block_number = ready_delegations[2].block_number
    /\ ready_delegations[1].delegation_counter = ready_delegations[2].delegation_counter
    /\ ready_delegations[1].transaction_id = <<1>>
    /\ ready_delegations[2].transaction_id = <<2>>

ErrorResults ==
    { "err_connect", "err_listen", "err_height", "err_begin", "err_check",
      "err_send", "err_commit" }

\* C14 (as claimed): every pass that ends has signalled "continue", that is
\* has returned Ok(true), whatever happened in it.
C14_AlwaysContinue ==
    (pc = "idle" /\ result # "none") => result = "ok_true"

\* C14 (amended): a pass returns Ok(true) exactly when it reaches its commit
\* and the commit succeeds: after the fetch found nothing to handle, after
\* the deletion, and after a cleanup that failed; a pass in which another
\* operation fails returns that error (or stops at the overflow of the
\* threshold), and no pass returns another value.
C14_PassEnd ==
    (pc # "idle" /\ pc' = "idle") =>
        /\ result' \in { "ok_true", "panic" } \cup ErrorResults
        /\ pc = "commit" <=> result' \in { "ok_true", "err_commit" }
        /\ result' = "ok_true" =>
              /\ store' = store \ tx_deleted
              /\ \A i \in DOMAIN task : task[i] = "joined"
        /\ result' = "panic" => (pc = "begin" /\ block_number < delay)
        /\ result' \in ErrorResults => store' = store

C14_ContinueOrError == [][C14_PassEnd]_vars

\* C14 witness: a pass whose cleanup failed after its submissions has
\* returned Ok(true)
C14_Witness ==
    /\ Committed
    /\ clean_failed
    /\ ready_delegations # <<>>

\* the fetch returned no row, or the lookup failed for every fetched row
AllUnknown == \A i \in DOMAIN delegations : LookupFailed(delegations[i])

\* C15: a pass whose fetch returns no row, or only rows classified Unknown,
\* spawns no task and goes straight to its commit with nothing deleted; the
\* commit leaves the table as it is and the pass returns Ok(true), or the
\* error of the commit if the commit itself fails.
C15_FetchStep ==
    (pc = "fetch" /\ pc' \notin { "fetch", "idle" } /\ AllUnknown') =>
        /\ pc' = "commit"
        /\ ready_delegations' = <<>>
        /\ handled_block_delegation' = <<>>
        /\ task' = <<>>
        /\ tx_deleted' = {}
        /\ store' = store

C15_CommitStep ==
    (pc = "commit" /\ pc' = "idle" /\ AllUnknown) =>
        /\ store' = store
        /\ tx_deleted' = {}
        /\ task' = <<>>
        /\ result' \in { "ok_true", "err_commit" }

C15_NoOpCommit == [][C15_FetchStep /\ C15_CommitStep]_vars

\* C15 witness: a pass that fetched rows, all of them Unknown, has returned
\* Ok(true) with the rows in the table
C15_Witness ==
    /\ Committed
    /\ delegations # <<>>
    /\ AllUnknown
    /\ RangeOf(delegations) \subseteq store

\* the heights of the fetched rows
FetchedHeights == { delegations[i].block_number : i \in DOMAIN delegations }

\* C16: in one pass get_block_hash is called exactly once for each height
\* among the fetched rows, also for a height whose lookup failed; the status
\* of a height is the one that call gave; and a pass starts with an empty
\* cache whatever the pass before it had classified.
C16_OncePerHeight ==
    /\ RangeOf(oracle_calls) = FetchedHeights
    /\ Len(oracle_calls) = Cardinality(FetchedHeights)
    /\ DOMAIN blocks_status = FetchedHeights
    /\ DOMAIN seen_hash = FetchedHeights
    /\ \A bn \in FetchedHeights :
          blocks_status[bn] = "Unkown" <=> ~seen_hash[bn].ok

C16_FreshCache ==
    (pc' \in { "connect", "listen", "recv", "query", "begin", "fetch" }) =>
        (blocks_status' = <<>> /\ oracle_calls' = <<>>)

C16_Memoization == [][C16_OncePerHeight' /\ C16_FreshCache]_vars

\* C16 witness: two fetched rows share a height whose lookup failed, and the
\* pass has called get_block_hash once
C16_Witness ==
    /\ Len(delegations) = 2
    /\ delegations[1].block_number = delegations[2].block_number
    /\ LookupFailed(delegations[1])
    /\ Len(oracle_calls) = 1

\* the two outcomes the claim counts as success
C17_Success(sent, receipt) ==
    \/ sent.rpc = "Ok" /\ receipt = "status_true"
    \/ ContractRejection(sent)

\* C17: a task whose send and receipt were answered by (sent, receipt)
\* returns Ok exactly when the send succeeded and the receipt reports
\* success, or the send was rejected as already delegated or revoked or as
\* counter too low; on every other answer it returns an error and counts a
\* failure, and a pass with such a task deletes nothing and returns the
\* error of the join.
C17_TaskStep ==
    \A i \in DOMAIN task, sent \in SendAnswers :
        \A receipt \in ReceiptsFor(sent) :
            TaskFinish(i, sent, receipt) =>
                /\ task'[i] = (IF C17_Success(sent, receipt) THEN "ok" ELSE "err")
                /\ C17_Success(sent, receipt) => metric'[i] # "fail"
                /\ ~C17_Success(sent, receipt) => metric'[i] = "fail"

C17_FailedTaskRollsBack ==
    (\E i \in DOMAIN task' : task'[i] = "err") =>
        /\ pc' \in { "join", "idle" }
        /\ pc' = "idle" => result' = "err_send"
        /\ tx_deleted' = {}
        /\ store \subseteq store'

C17_OutcomeClassification == [][C17_TaskStep /\ C17_FailedTaskRollsBack]_vars

\* C17 witness: a pass with a task the contract rejected (success) and a
\* task that failed has rolled back
C17_Witness ==
    /\ pc = "idle"
    /\ result = "err_send"
    /\ \E i, j \in DOMAIN task : rejected[i] /\ task[i] = "joined" /\ task[j] = "err"

\* C18: a pass that commits has deleted only rows it had fetched (rows with
\* block_number at most height minus delay that were in the table at the
\* fetch): a row the host listener inserts after the fetch is still in the
\* table after the commit, also when its block_hash is in the deletion list.
C18_DeletesOnlyFetched ==
    Committed =>
        \A r \in tx_deleted :
            /\ r \in RangeOf(delegations)
            /\ r.block_number <= block_number - delay

\* C19 (as claimed): a row that is ready and whose own task returns Ok in
\* every pass that ends with the row in the table, with a cleanup and a
\* commit that never fail, is eventually deleted from the table, whatever
\* the tasks of the other rows return.
C19_OwnSuccess(r) ==
    (pc = "idle" /\ result # "none" /\ r \in store) =>
        \E i \in DOMAIN task :
            ready_delegations[i] = r /\ task[i] \in { "ok", "joined" }

C19_StoreWorks == ~clean_failed /\ result # "err_commit"

C19_IndependentProgress ==
    \A r \in ListenerRows :
        ([]C19_OwnSuccess(r) /\ []C19_StoreWorks) => <>(r \notin store)

\* C19 (amended): the rows of a pass progress together.  While a task of
\* the pass has failed no ready row of the pass is deleted, not even one
\* whose own task returned Ok; a pass all of whose tasks returned Ok, and
\* whose cleanup and commit work, returns Ok(true) with every ready row
\* deleted.
C19_BatchProgress ==
    /\ (\E j \in DOMAIN task : Failed(j)) =>
          /\ RangeOf(ready_delegations) \subseteq store
          /\ tx_deleted = {}
    /\ ( /\ pc = "idle"
         /\ result # "none"
         /\ task # <<>>
         /\ \A i \in DOMAIN task : task[i] \in { "ok", "joined" }
         /\ C19_StoreWorks ) =>
          /\ result = "ok_true"
          /\ \A i \in DOMAIN task :
                ready_delegations[i] \in tx_deleted /\ ready_delegations[i] \notin store

\* C19 witness: a row whose grant an earlier pass had mined is submitted
\* again and rejected as already delegated, and stays in the table because
\* the task of another row failed again
C19_Witness ==
    /\ pc = "idle"
    /\ result = "err_send"
    /\ \E i, j \in DOMAIN task :
          /\ rejected[i]
          /\ ready_delegations[i] \in onchain
          /\ ready_delegations[i] \in store
          /\ task[j] = "err"

\* the pass is past its fetch, or has returned from a point past it
PastFetch ==
    \/ pc \in { "join", "cleanup", "commit" }
    \/ pc = "idle" /\ result \in { "ok_true", "err_send", "err_commit" }

\* C20: a pass that obtained a height below the configured delay fetches no
\* row, whatever the u64 subtraction and the conversion to i64 give: it
\* submits nothing and deletes nothing.
C20_UnderflowSelectsNothing ==
    (block_number < delay /\ PastFetch) =>
        /\ delegations = <<>>
        /\ task = <<>>
        /\ tx_deleted = {}

====
